---- MODULE Spec2Model ----
(***************************************************************************)
(* golog: a logging facade that fans one record out to several             *)
(* destinations (stdout, io.Writer, Google Cloud Logging, rotating file).  *)
(* The model follows main.go: the functional options and NewLogger, the    *)
(* leveled emit methods (through zap's tee core), Close and                *)
(* closeProviders.                                                         *)
(***************************************************************************)
EXTENDS Integers, Sequences, FiniteSets, TLC

(* ------------------------------ bounds -------------------------------- *)
\* longest option list handed to NewLogger in the construction runs
MaxOptions == 3
\* most destinations of a logger in the emit runs
MaxProviders == 4
\* most destinations of a logger in the Close runs
MaxCloseProviders == 2
\* emit calls per run
MaxEmits == 2
\* Close calls per run
MaxCloses == 2
\* failing writes injected per emit run
MaxWriteFaults == 1
\* failing syncs and releases injected per Close run
MaxFaults == 2
\* Sync calls per run
MaxSyncs == 2
\* most destinations of a logger in the concurrent emit runs
MaxConcProviders == 2
\* emit calls per thread in the concurrent emit runs
MaxThreadEmits == 1
\* emit, Sync and Close calls per run of a logger's whole life
MaxLifeOps == 3

Threads == {"t1", "t2"}

(* ------------------------------ levels -------------------------------- *)
DebugLevel == 0
InfoLevel == 1
WarnLevel == 2
ErrorLevel == 3
FatalLevel == 4
Levels == {DebugLevel, InfoLevel, WarnLevel, ErrorLevel, FatalLevel}

\* zapcore.Level values
ZapDebug == 0 - 1
ZapInfo == 0
ZapWarn == 1
ZapError == 2
ZapFatal == 5
ZapDPanic == 3
ZapPanic == 4

\* mutation of toZapLevel: WarnLevel is mapped one level too high
toZapLevel_warnAsError(lvl) ==
    CASE lvl = DebugLevel -> ZapDebug
      [] lvl = InfoLevel -> ZapInfo
      [] lvl = WarnLevel -> ZapError
      [] lvl = ErrorLevel -> ZapError
      [] lvl = FatalLevel -> ZapFatal
      [] OTHER -> ZapInfo

toZapLevel(lvl) ==
    CASE lvl = DebugLevel -> ZapDebug
      [] lvl = InfoLevel -> ZapInfo
      [] lvl = WarnLevel -> ZapWarn
      [] lvl = ErrorLevel -> ZapError
      [] lvl = FatalLevel -> ZapFatal
      [] OTHER -> ZapInfo

(* ------------------------------ errors -------------------------------- *)
\* An error value: the chain of messages from the outermost wrapper to the
\* cause, the destinations (positions in cfg.providers) it came from, and
\* the system error numbers errors.Is finds in it.  The nil error has the
\* empty chain.
Nil == [chain |-> <<>>, at |-> {}, errno |-> {}]
NewError(msg, where) == [chain |-> <<msg>>, at |-> where, errno |-> {}]
Wrap(msg, err) ==
    [chain |-> <<msg>> \o err.chain, at |-> err.at, errno |-> err.errno]

\* the system errors a flush can end with: ENOTTY is what syncing a
\* terminal or pipe gives (not a failure of the log), EIO a real one
ENOTTY == "ENOTTY"
EIO == "EIO"
\* an *os.PathError of a sync: a message, where it happened, its Err
PathError(msg, where, errnos) ==
    [chain |-> <<msg>>, at |-> where, errno |-> errnos]

(* ------------------------------ encoders ------------------------------ *)
JSONEncoder == "json"
ConsoleEncoder == "console"

\* mutation of buildEncoder: an unknown kind gets no encoder at all
buildEncoder_nilOnError(t) ==
    CASE t = ConsoleEncoder -> [enc |-> "console", err |-> Nil]
      [] t = JSONEncoder -> [enc |-> "json", err |-> Nil]
      [] OTHER -> [enc |-> "nil",
                   err |-> NewError("unsupported encoder type", {})]

\* The encoder is named by its kind; "nil" stands for no encoder.
buildEncoder(t) ==
    CASE t = ConsoleEncoder -> [enc |-> "console", err |-> Nil]
      [] t = JSONEncoder -> [enc |-> "json", err |-> Nil]
      [] OTHER -> [enc |-> "json",
                   err |-> NewError("unsupported encoder type", {})]

(* ------------------------------ options ------------------------------- *)
\* A provider as the option builds it.  clientErr is the outcome that
\* logging.NewClient will have for a gcpProvider.
Provider(kind, enc, size, backups, age, clientErr) ==
    [kind |-> kind, encoderType |-> enc, maxSize |-> size,
     maxBackups |-> backups, maxAge |-> age, clientErr |-> clientErr]

WithStdOutProvider(enc) ==
    [opt |-> "provider", p |-> Provider("stdout", enc, 0, 0, 0, FALSE),
     level |-> InfoLevel]
WithWriterProvider(enc) ==
    [opt |-> "provider", p |-> Provider("writer", enc, 0, 0, 0, FALSE),
     level |-> InfoLevel]
WithGCPProvider(clientErr) ==
    [opt |-> "provider", p |-> Provider("gcp", JSONEncoder, 0, 0, 0, clientErr),
     level |-> InfoLevel]
WithFileProvider(size, backups, age) ==
    [opt |-> "provider", p |-> Provider("file", JSONEncoder, size, backups, age, FALSE),
     level |-> InfoLevel]
WithLevel(level) ==
    [opt |-> "level", p |-> Provider("none", JSONEncoder, 0, 0, 0, FALSE),
     level |-> level]

\* the loggerConfig NewLogger starts from, and one option applied to it
DefaultConfig == [providers |-> <<>>, level |-> InfoLevel]

\* mutation of ApplyOption: a level once set away from the default is kept
ApplyOption_firstLevelWins(cfg, o) ==
    IF o.opt = "level"
    THEN IF cfg.level = InfoLevel THEN [cfg EXCEPT !.level = o.level] ELSE cfg
    ELSE [cfg EXCEPT !.providers = Append(@, o.p)]

ApplyOption(cfg, o) ==
    IF o.opt = "level"
    THEN [cfg EXCEPT !.level = o.level]
    ELSE [cfg EXCEPT !.providers = Append(@, o.p)]

RECURSIVE ApplyOptions(_, _)
ApplyOptions(cfg, opts) ==
    IF opts = <<>> THEN cfg
    ELSE ApplyOptions(ApplyOption(cfg, Head(opts)), Tail(opts))

(* --------------------------- provider.newCore -------------------------- *)
\* The result of p.newCore(level): an error or a core, and whether the
\* provider kept a handle (gcpProvider.client, fileProvider.lumberjackLogger).
stdOutNewCore(p, level) ==
    LET e == buildEncoder(p.encoderType) IN
    IF e.err # Nil THEN [err |-> e.err, handle |-> FALSE, open |-> FALSE]
    ELSE [err |-> Nil, handle |-> FALSE, open |-> FALSE]

writerNewCore(p, level) ==
    LET e == buildEncoder(p.encoderType) IN
    IF e.err # Nil THEN [err |-> e.err, handle |-> FALSE, open |-> FALSE]
    ELSE [err |-> Nil, handle |-> FALSE, open |-> FALSE]

\* logging.NewClient opens the client connection
gcpNewCore(p, level) ==
    IF p.clientErr
    THEN [err |-> Wrap("gcpProvider: failed to create client",
                       NewError("NewClient failed", {})),
          handle |-> FALSE, open |-> FALSE]
    ELSE [err |-> Nil, handle |-> TRUE, open |-> TRUE]

\* mutation of fileNewCore: only maxSize is validated
fileNewCore_sizeOnly(p, level) ==
    IF p.maxSize < 0
    THEN [err |-> NewError("fileProvider: rotation parameters must be non-negative", {}),
          handle |-> FALSE, open |-> FALSE]
    ELSE [err |-> Nil, handle |-> TRUE, open |-> FALSE]

\* lumberjack opens the file on the first write, not here
fileNewCore(p, level) ==
    IF p.maxSize < 0 \/ p.maxBackups < 0 \/ p.maxAge < 0
    THEN [err |-> NewError("fileProvider: rotation parameters must be non-negative", {}),
          handle |-> FALSE, open |-> FALSE]
    ELSE LET e == buildEncoder(JSONEncoder) IN
         IF e.err # Nil THEN [err |-> e.err, handle |-> FALSE, open |-> FALSE]
         ELSE [err |-> Nil, handle |-> TRUE, open |-> FALSE]

newCore(p, level) ==
    CASE p.kind = "stdout" -> stdOutNewCore(p, level)
      [] p.kind = "writer" -> writerNewCore(p, level)
      [] p.kind = "gcp" -> gcpNewCore(p, level)
      [] p.kind = "file" -> fileNewCore(p, level)

(* ------------------------------- state -------------------------------- *)
VARIABLES
    options,    \* the options handed to NewLogger, in call order
    phase,      \* "start": NewLogger not yet called; "returned"; "exited": os.Exit
    newErr,     \* the error NewLogger returned
    logger,     \* the *Logger NewLogger returned (ok = FALSE: nil)
    prov,       \* cfg.providers: the provider objects and their mutable fields
    sink,       \* per provider, the entries its sink holds
    emitted,    \* the emit calls made so far: level, failing writes, the
                \* method, the Close calls that had returned before it
    pc,         \* per thread, its position in Close
    idx,        \* per thread, the loop index of closeProviders
    firstErr,   \* per thread, Close's firstErr
    first,      \* per thread, closeProviders' first
    call,       \* per thread, its latest Close call: what it did, in order
    closes,     \* Close calls begun and returned so far
    faults,     \* destination failures injected so far
    synced,     \* the latest Sync call: what it did and returned
    unreported, \* a write has failed since the last Sync or Close began
    job,        \* per thread, the emit call it is in (or its last one)
    raced,      \* the threads whose Write in progress overlaps another one
    writerLocked, \* the caller's io.Writer guards its own Write
    atError,    \* NewLogger: the providers when a newCore error came back
    encType,    \* the EncoderType handed to buildEncoder
    built,      \* what buildEncoder returned (empty: not called yet)
    cleanup, \* NewLogger: what closeProviders returned to it (and it dropped)
    rec, \* the record handed to a core's Write: entry and fields
    cloud, \* the entries the cloud logger was handed (logger.Log)
    ctx, \* the context.Context being built: its chain of values, the With...ID calls made
    ctxFields, \* what FieldsFromContext(ctx) returned (empty: not called yet)
    encoded  \* the attributes the JSON encoder wrote for the record, in order (empty: not written)

vars == <<options, phase, newErr, logger, prov, sink, emitted,
          pc, idx, firstErr, first, call, closes, faults,
          synced, unreported, job, raced, writerLocked, atError,
          encType, built, cleanup, rec, cloud, ctx, ctxFields, encoded>>

NoLogger == [ok |-> FALSE, cores |-> <<>>, closers |-> <<>>]

\* A Close call: n is its number in the order the calls began (0: none
\* yet), seen the number of Close calls that had returned when it began,
\* ev what it did to the destinations, in order, ret the error it returned.
\* pending tells whether a write had failed since the last flush.
NoCall == [n |-> 0, seen |-> 0, ev |-> <<>>, ret |-> Nil, done |-> FALSE,
           pending |-> FALSE]

\* A Sync call: n is its number (0: none yet), ev the flushes it asked for,
\* in order, ret the error it returned, pending as for Close.
NoSync == [n |-> 0, ev |-> <<>>, ret |-> Nil, pending |-> FALSE]

\* An emit call of a thread: n is the number of emit calls the thread has
\* made, acc how many of them passed the level check, id the number of the
\* record, lvl its zapcore level, cores the cores the checked entry holds,
\* out what the Write of each did so far.
NoJob == [n |-> 0, acc |-> 0, id |-> 0, lvl |-> ZapInfo, cores |-> <<>>,
          out |-> <<>>]

\* A record of one emit call: the entry zap makes of it (level, message,
\* time, caller) and the Fields the caller passed.  caller is empty when
\* zap could not find the caller (Caller.Defined false).
NoRecord == [lvl |-> ZapInfo, msg |-> "", time |-> 0, caller |-> <<>>,
             fields |-> <<>>]

\* A context.Context: nil, or the chain of the values attached to it,
\* oldest first (context.Background() has none); calls is the list of the
\* calls made on the way to it, each with the length of the chain it
\* returned.
NilCtx == [nil |-> TRUE, chain |-> <<>>, calls |-> <<>>]
Background == [nil |-> FALSE, chain |-> <<>>, calls |-> <<>>]

\* A provider object as its option creates it: handle is gcpProvider.client
\* or fileProvider.lumberjackLogger being non-nil, open is the resource it
\* stands for being held (client connection, file descriptor); closeCalls
\* counts p.close(), relCalls the client.Close()/lumberjack Close() calls.
NewProvider(p) ==
    [kind |-> p.kind, handle |-> FALSE, open |-> FALSE,
     closeCalls |-> 0, relCalls |-> 0]

(* ---------------------------- provider.close --------------------------- *)
\* The release of what this provider stands for is one that can fail:
\* client.Close() of the cloud client, Close() of the lumberjack writer.
ReleaseCanFail(st) == st.kind \in {"gcp", "file"}

\* Whether a release of this provider can fail: only gcpProvider and
\* fileProvider call into a client, and only when the handle is set.
CanCloseFail(st) == ReleaseCanFail(st) /\ st.handle

stdOutClose(st, fail) ==
    [st |-> [st EXCEPT !.closeCalls = @ + 1], err |-> Nil]

\* mutation of writerClose: the provider closes the caller's writer
writerClose_closesWriter(st, fail) ==
    [st |-> [st EXCEPT !.closeCalls = @ + 1, !.relCalls = @ + 1],
     err |-> IF fail THEN NewError("writer close failed", {}) ELSE Nil]

writerClose(st, fail) ==
    [st |-> [st EXCEPT !.closeCalls = @ + 1], err |-> Nil]

gcpClose(st, fail) ==
    IF st.handle
    THEN [st |-> [st EXCEPT !.closeCalls = @ + 1, !.relCalls = @ + 1,
                            !.open = FALSE],
          err |-> IF fail
                  THEN Wrap("gcpProvider: error closing client",
                            NewError("client close failed", {}))
                  ELSE Nil]
    ELSE [st |-> [st EXCEPT !.closeCalls = @ + 1], err |-> Nil]

\* mutation of fileClose: the lumberjack writer is closed without looking
\* whether newCore ever made one
fileClose_unguarded(st, fail) ==
    [st |-> [st EXCEPT !.closeCalls = @ + 1, !.relCalls = @ + 1,
                       !.open = FALSE],
     err |-> IF fail THEN NewError("file close failed", {}) ELSE Nil]

fileClose(st, fail) ==
    IF st.handle
    THEN [st |-> [st EXCEPT !.closeCalls = @ + 1, !.relCalls = @ + 1,
                            !.open = FALSE],
          err |-> IF fail THEN NewError("file close failed", {}) ELSE Nil]
    ELSE [st |-> [st EXCEPT !.closeCalls = @ + 1], err |-> Nil]

close(st, fail) ==
    CASE st.kind = "stdout" -> stdOutClose(st, fail)
      [] st.kind = "writer" -> writerClose(st, fail)
      [] st.kind = "gcp" -> gcpClose(st, fail)
      [] st.kind = "file" -> fileClose(st, fail)

\* One iteration of closeProviders' loop on provider i: the providers after
\* p.close(), the loop's first error, and the error this close returned.
closeProvidersStep(ps, i, fail, fst) ==
    LET r == close(ps[i], fail) IN
    [prov |-> [ps EXCEPT ![i] = r.st],
     first |-> IF r.err # Nil /\ fst = Nil
               THEN Wrap("provider close error", [r.err EXCEPT !.at = {i}])
               ELSE fst,
     err |-> r.err]

\* closeProviders(provs) run to its end: provs is the list of positions,
\* F the providers whose release fails.
RECURSIVE closeProvidersFrom(_, _, _, _)
closeProvidersFrom(ps, provs, F, fst) ==
    IF provs = <<>> THEN [prov |-> ps, first |-> fst]
    ELSE LET s == closeProvidersStep(ps, Head(provs), Head(provs) \in F, fst)
         IN closeProvidersFrom(s.prov, Tail(provs), F, s.first)

\* mutation of closeProviders: nothing is closed
closeProviders_skipped(ps, provs, F) == [prov |-> ps, first |-> Nil]

closeProviders(ps, provs, F) == closeProvidersFrom(ps, provs, F, Nil)

(* ------------------------------ NewLogger ------------------------------ *)
\* mutation of NoProviders: the check for an empty provider list is missing
NoProviders_unchecked(cfg) == FALSE

\* len(cfg.providers) == 0
NoProviders(cfg) == Len(cfg.providers) = 0

Min(S) == CHOOSE x \in S : \A y \in S : x <= y

\* mutation of Positions: each provider is put in front of cfg.closers
Positions_prepended(n) == [i \in 1..n |-> n + 1 - i]

\* cfg.closers after the loop: every provider appended in turn
Positions(n) == [i \in 1..n |-> i]

\* mutation of Initialised: newCore is run on every provider before any
\* error is looked at
Initialised_eager(cfg, upto) ==
    [i \in 1..Len(cfg.providers) |->
        LET r == newCore(cfg.providers[i], toZapLevel(cfg.level)) IN
        [NewProvider(cfg.providers[i]) EXCEPT !.handle = r.handle,
                                              !.open = r.open]]

\* The providers after newCore has run on positions 1..upto.
Initialised(cfg, upto) ==
    [i \in 1..Len(cfg.providers) |->
        LET r == newCore(cfg.providers[i], toZapLevel(cfg.level)) IN
        IF i <= upto
        THEN [NewProvider(cfg.providers[i]) EXCEPT !.handle = r.handle,
                                                   !.open = r.open]
        ELSE NewProvider(cfg.providers[i])]

NewLogger ==
    /\ phase = "start"
    /\ LET cfg == ApplyOptions(DefaultConfig, options)
           N == Len(cfg.providers)
           bad == {i \in 1..N :
                     newCore(cfg.providers[i], toZapLevel(cfg.level)).err # Nil}
       IN
       IF NoProviders(cfg)
       THEN /\ newErr' = NewError("no providers specified", {})
            /\ faults' = faults
            /\ logger' = NoLogger
            /\ prov' = <<>>
            /\ sink' = <<>>
            /\ atError' = <<>>
            /\ cleanup' = Nil
       ELSE IF bad # {}
       THEN LET k == Min(bad)
                ps == Initialised(cfg, k - 1)
            IN
            \E F \in SUBSET {i \in 1..N : ReleaseCanFail(ps[i])} :
               /\ Cardinality(F) <= MaxFaults
               /\ faults' = Cardinality({i \in F : CanCloseFail(ps[i])})
               /\ prov' = closeProviders(ps, [i \in 1..N |-> i], F).prov
               /\ cleanup' = closeProviders(ps, [i \in 1..N |-> i], F).first
               /\ newErr' = Wrap("failed to initialise provider",
                                 [newCore(cfg.providers[k],
                                          toZapLevel(cfg.level)).err
                                    EXCEPT !.at = {k}])
               /\ logger' = NoLogger
               /\ sink' = [i \in 1..N |-> <<>>]
               /\ atError' = ps
       ELSE /\ prov' = Initialised(cfg, N)
            /\ atError' = <<>>
            /\ cleanup' = Nil
            /\ faults' = faults
            /\ newErr' = Nil
            /\ logger' = [ok |-> TRUE,
                          cores |-> [i \in 1..N |->
                                       [p |-> i, level |-> toZapLevel(cfg.level)]],
                          closers |-> Positions(N)]
            /\ sink' = [i \in 1..N |-> <<>>]
    /\ phase' = "returned"
    /\ UNCHANGED <<options, emitted, pc, idx, firstErr, first, call, closes,
                   synced, unreported, job, raced, writerLocked,
                   encType, built,
                   rec,
                   cloud,
                   ctx,
                   ctxFields,
                   encoded>>

(* --------------------------- option lists ------------------------------ *)
\* The options the runs draw from: each provider kind well and badly
\* configured, and WithLevel of every level.
GoodProviderOptions ==
    {WithStdOutProvider(JSONEncoder), WithWriterProvider(JSONEncoder),
     WithGCPProvider(FALSE), WithFileProvider(1, 1, 1)}
BadProviderOptions ==
    {WithStdOutProvider("xml"), WithWriterProvider("xml"),
     WithGCPProvider(TRUE), WithFileProvider(0 - 1, 0, 0)}
LevelOptions == {WithLevel(l) : l \in Levels}
AllOptions == GoodProviderOptions \cup BadProviderOptions \cup LevelOptions

SeqsUpTo(S, n) == UNION {[1..m -> S] : m \in 0..n}

InitBase ==
    /\ phase = "start"
    /\ newErr = Nil
    /\ logger = NoLogger
    /\ prov = <<>>
    /\ sink = <<>>
    /\ emitted = <<>>
    /\ pc = [t \in Threads |-> "idle"]
    /\ idx = [t \in Threads |-> 0]
    /\ firstErr = [t \in Threads |-> Nil]
    /\ first = [t \in Threads |-> Nil]
    /\ call = [t \in Threads |-> NoCall]
    /\ closes = [begun |-> 0, returned |-> 0]
    /\ faults = 0
    /\ synced = NoSync
    /\ unreported = FALSE
    /\ job = [t \in Threads |-> NoJob]
    /\ raced = {}
    /\ atError = <<>>
    /\ built = <<>>
    /\ cleanup = Nil
    /\ cloud = <<>>
    /\ ctxFields = <<>>
    /\ encoded = <<>>

\* the runs of one thread at a time: the caller's writer needs no lock
InitRest ==
    /\ InitBase
    /\ writerLocked = FALSE
    /\ encType = JSONEncoder
    /\ rec = NoRecord
    /\ ctx = Background

\* Construction: NewLogger on every option list up to MaxOptions.
InitNew ==
    /\ options \in SeqsUpTo(AllOptions, MaxOptions)
    /\ InitRest

SpecNew == InitNew /\ [][NewLogger]_vars

(* --------------------------- configuration ----------------------------- *)
\* buildEncoder(encType) called on its own, as its test does
BuildEncoder ==
    /\ built = <<>>
    /\ built' = <<buildEncoder(encType)>>
    /\ UNCHANGED <<options, phase, newErr, logger, prov, sink, emitted,
                   pc, idx, firstErr, first, call, closes, faults,
                   synced, unreported, job, raced, writerLocked, atError,
                   encType,
                   cleanup,
                   rec,
                   cloud,
                   ctx,
                   ctxFields,
                   encoded>>

\* the rotation parameters and the encoder kinds the configuration runs
\* try
MaxParam == 1
Params == (0 - MaxParam)..MaxParam
EncoderTypes == {JSONEncoder, ConsoleEncoder, "xml", "JSON", ""}

\* Configuration: a file destination of any rotation parameters, alone or
\* after one well-configured destination, and buildEncoder on any kind.
InitConfig ==
    /\ \E s, b, a \in Params :
          \E pre \in SeqsUpTo(GoodProviderOptions, 1) :
             options = Append(pre, WithFileProvider(s, b, a))
    /\ InitBase
    /\ rec = NoRecord
    /\ ctx = Background
    /\ writerLocked = FALSE
    /\ encType \in EncoderTypes

NextConfig == NewLogger \/ BuildEncoder

SpecConfig == InitConfig /\ [][NextConfig]_vars

(* -------------------------------- emit --------------------------------- *)
\* The zapcore level each emit method logs at (Debug .. Fatal call
\* zapLogger.Debug .. zapLogger.Fatal).
MethodLevel(lvl) ==
    CASE lvl = DebugLevel -> ZapDebug
      [] lvl = InfoLevel -> ZapInfo
      [] lvl = WarnLevel -> ZapWarn
      [] lvl = ErrorLevel -> ZapError
      [] lvl = FatalLevel -> ZapFatal

\* A write into the sink of this provider can fail (stdout, the caller's
\* writer, the file); gcpZapCore.Write always returns nil.
CanWriteFail(st) == st.kind # "gcp"

\* Core.Enabled of the core of provider i
Enabled(i, zl) == zl >= logger.cores[i].level

\* mutation of TeeWrite: only the first core is part of the tee
TeeWrite_firstCoreOnly(snk, entry, F) ==
    [i \in DOMAIN snk |->
        IF i = 1 /\ Enabled(i, entry.lvl) /\ i \notin F
        THEN Append(snk[i], entry)
        ELSE snk[i]]

\* mutation of TeeWrite: the fan-out stops at the first failing write
TeeWrite_stopOnError(snk, entry, F) ==
    [i \in DOMAIN snk |->
        IF Enabled(i, entry.lvl) /\ (\A j \in 1..i : j \notin F)
        THEN Append(snk[i], entry)
        ELSE snk[i]]

\* mutation of TeeWrite: the entry is put in front of what the sink holds
TeeWrite_prepended(snk, entry, F) ==
    [i \in DOMAIN snk |->
        IF Enabled(i, entry.lvl) /\ i \notin F
        THEN <<entry>> \o snk[i]
        ELSE snk[i]]

\* The tee core writing one checked entry: every enabled core's Write is
\* called, in order, whatever the earlier ones returned.
TeeWrite(snk, entry, F) ==
    [i \in DOMAIN snk |->
        IF Enabled(i, entry.lvl) /\ i \notin F
        THEN Append(snk[i], entry)
        ELSE snk[i]]

\* One record handed to zapLogger at level lvl, with the writes of the
\* providers in F failing; via tells which method of the Logger made the
\* call ("direct": Debug .. Fatal).
EmitVia(via, lvl, F) ==
    /\ phase = "returned"
    /\ logger.ok
    /\ LET zl == MethodLevel(lvl)
           on == {i \in DOMAIN logger.cores : Enabled(i, zl)}
           entry == [id |-> Len(emitted) + 1, lvl |-> zl]
       IN
       /\ F \subseteq {i \in on : CanWriteFail(prov[i])}
       /\ faults + Cardinality(F) <= MaxWriteFaults
       /\ faults' = faults + Cardinality(F)
       /\ sink' = TeeWrite(sink, entry, F)
       /\ prov' = [i \in DOMAIN prov |->
                     IF i \in on \ F /\ prov[i].kind = "file"
                     THEN [prov[i] EXCEPT !.open = TRUE]
                     ELSE prov[i]]
       /\ emitted' = Append(emitted, [lvl |-> lvl, fail |-> F, via |-> via,
                                      closed |-> closes.returned])
       /\ phase' = IF zl = ZapFatal THEN "exited" ELSE phase
       /\ unreported' = (unreported \/ F # {})
    /\ UNCHANGED <<options, newErr, logger, pc, idx, firstErr, first, call, closes,
                   synced, job, raced, writerLocked, atError,
                   encType, built,
                   cleanup,
                   rec,
                   cloud,
                   ctx,
                   ctxFields,
                   encoded>>

\* l.Debug / Info / Warn / Error / Fatal(msg, fields...) at level lvl
Emit(lvl, F) == Len(emitted) < MaxEmits /\ EmitVia("direct", lvl, F)

\* l.Debugf .. l.Fatalf(format, args...): the message is formatted and the
\* record goes the way of the base emit
Emitf(lvl, F) == EmitVia("f", lvl, F)

\* l.Debugw .. l.Fatalw(msg, keysAndValues...): the pairs become the
\* fields and the record goes the way of the base emit
Emitw(lvl, F) == EmitVia("w", lvl, F)

EmitAny == \E lvl \in Levels : \E F \in SUBSET DOMAIN prov : Emit(lvl, F)

\* lists of well-configured providers, no kind twice
DistinctKinds(os) ==
    \A i, j \in DOMAIN os : i # j => os[i].p.kind # os[j].p.kind
GoodLists(n) ==
    {os \in SeqsUpTo(GoodProviderOptions, n) : os # <<>> /\ DistinctKinds(os)}

\* Emission: a logger of up to MaxProviders destinations and any threshold.
InitEmit ==
    /\ \E os \in GoodLists(MaxProviders) : \E l \in Levels :
          options = Append(os, WithLevel(l))
    /\ InitRest

NextEmit == NewLogger \/ EmitAny

SpecEmit == InitEmit /\ [][NextEmit]_vars

\* the levels the concurrent runs emit at: one below the default
\* threshold, one above it, and Fatal
ConcLevels == {DebugLevel, InfoLevel, FatalLevel}

\* the destinations of the concurrent runs: the caller's writer and the
\* rotating file, in either order
ConcLists ==
    {os \in SeqsUpTo({WithWriterProvider(JSONEncoder), WithFileProvider(1, 1, 1)},
                     MaxConcProviders) : os # <<>> /\ DistinctKinds(os)}

\* most WithLevel options in the runs on the threshold
MaxLevelOptions == 2

\* the values a caller can pass as a Level: the five constants, and ints
\* that are none of them
AnyLevels == Levels \cup {0 - 1, 7}

\* one emit with no failing write
LevelEmit == emitted = <<>> /\ \E lvl \in Levels : Emit(lvl, {})

\* Thresholds: a writer destination and up to MaxLevelOptions WithLevel
\* options of any value, before or after it, then one emit at any level.
InitLevel ==
    /\ \E ls \in SeqsUpTo({WithLevel(l) : l \in AnyLevels}, MaxLevelOptions) :
          \E a \in 0..Len(ls) :
             options = SubSeq(ls, 1, a) \o <<WithWriterProvider(JSONEncoder)>>
                       \o SubSeq(ls, a + 1, Len(ls))
    /\ InitRest

NextLevel == NewLogger \/ LevelEmit

SpecLevel == InitLevel /\ [][NextLevel]_vars

\* emit calls per run of one caller using every kind of emit method
MaxOrderEmits == 3

OrderEmit ==
    /\ Len(emitted) < MaxOrderEmits
    /\ \E lvl \in ConcLevels : \E F \in SUBSET DOMAIN prov :
          EmitVia("direct", lvl, F)
OrderEmitf ==
    /\ Len(emitted) < MaxOrderEmits
    /\ \E lvl \in ConcLevels : \E F \in SUBSET DOMAIN prov : Emitf(lvl, F)
OrderEmitw ==
    /\ Len(emitted) < MaxOrderEmits
    /\ \E lvl \in ConcLevels : \E F \in SUBSET DOMAIN prov : Emitw(lvl, F)

\* One caller emitting one record after another, through any of the emit
\* methods, into a writer and a file at threshold Debug or Info.
InitOrder ==
    /\ \E os \in ConcLists : \E l \in {DebugLevel, InfoLevel} :
          options = Append(os, WithLevel(l))
    /\ InitRest

NextOrder == NewLogger \/ OrderEmit \/ OrderEmitf \/ OrderEmitw

SpecOrder == InitOrder /\ [][NextOrder]_vars

(* -------------------------- concurrent emits --------------------------- *)
\* The emit methods run on the caller's goroutine; here one call is taken
\* apart into the check of the level and, for each core of the checked
\* entry in turn, the beginning and the end of the Write on its sink, so
\* that the calls of two goroutines interleave.

\* Whether the sink of this destination takes a lock of its own in Write:
\* os.Stdout (the file's lock), the cloud logger and the lumberjack writer
\* do; a writerProvider hands p.writer to zapcore.AddSync as it is, with
\* no zapcore.Lock around it.
SinkLocks(st) == st.kind \in {"stdout", "gcp", "file"}

\* the Write calls on the sink of destination i exclude each other
Excludes(i) == SinkLocks(prov[i]) \/ (prov[i].kind = "writer" /\ writerLocked)

\* the threads with a Write in progress on the sink of destination i
Writing(i) ==
    {u \in Threads : pc[u] = "writing" /\ job[u].cores[idx[u]] = i}

\* the indices of the cores enabled at level zl, in tee order
RECURSIVE EnabledFrom(_, _)
\* mutation of EnabledFrom: the tee holds the cores last registered first
EnabledFrom_reversed(i, zl) ==
    LET on == {k \in i..Len(logger.cores) : Enabled(k, zl)} IN
    [a \in 1..Cardinality(on) |->
        CHOOSE k \in on : Cardinality({m \in on : m > k}) = a - 1]

EnabledFrom(i, zl) ==
    IF i > Len(logger.cores) THEN <<>>
    ELSE IF Enabled(i, zl) THEN <<i>> \o EnabledFrom(i + 1, zl)
    ELSE EnabledFrom(i + 1, zl)

\* The sink after one Write: "whole" appends the entry, "torn" leaves
\* bytes that are no entry (id 0), "lost" and "failed" leave nothing.
SinkAfter(snk, i, entry, outcome) ==
    CASE outcome = "whole" -> [snk EXCEPT ![i] = Append(@, entry)]
      [] outcome = "torn" -> [snk EXCEPT ![i] = Append(@, [entry EXCEPT !.id = 0])]
      [] OTHER -> snk

\* What a Write can do: one that overlapped another Write on an unguarded
\* sink is a data race and can end in any way; otherwise it appends the
\* entry or, for a sink that can fail, returns an error.
Outcomes(t, i) ==
    IF t \in raced THEN {"whole", "lost", "torn"}
    ELSE {"whole"} \cup
         (IF CanWriteFail(prov[i]) /\ faults < MaxWriteFaults
          THEN {"failed"} ELSE {})

\* mutation of ExitsAfter: the exit hook runs after the first core's Write
ExitsAfter_firstWrite(zl, k, n) == zl = ZapFatal /\ k = 1

\* zapLogger.Fatal: os.Exit is called once the checked entry has been
\* written to the last (n-th) of its cores
ExitsAfter(zl, k, n) == zl = ZapFatal /\ k = n

\* The record a thread emits in its n-th call: each message names its
\* worker and its sequence number, so no two records are the same.
ThreadNo(t) == IF t = "t1" THEN 1 ELSE 2
RecordId(t, n) == 100 * ThreadNo(t) + n

\* thread t calls l.Debug .. l.Fatal: the level check
Emit_Check(t, lvl) ==
    /\ phase = "returned"
    /\ logger.ok
    /\ pc[t] = "idle"
    /\ job[t].n < MaxThreadEmits
    /\ LET zl == MethodLevel(lvl)
           cores == EnabledFrom(1, zl)
       IN
       /\ job' = [job EXCEPT ![t] = [n |-> @.n + 1,
                                     acc |-> IF cores = <<>> THEN @.acc
                                             ELSE @.acc + 1,
                                     id |-> RecordId(t, @.n + 1),
                                     lvl |-> zl, cores |-> cores, out |-> <<>>]]
       /\ IF cores = <<>>
          THEN UNCHANGED <<pc, idx>>
          ELSE /\ pc' = [pc EXCEPT ![t] = "write"]
               /\ idx' = [idx EXCEPT ![t] = 1]
    /\ UNCHANGED <<options, phase, newErr, logger, prov, sink, emitted,
                   firstErr, first, call, closes, faults, synced, unreported,
                   raced, writerLocked, atError,
                   encType, built,
                   cleanup,
                   rec,
                   cloud,
                   ctx,
                   ctxFields,
                   encoded>>

\* thread t enters the Write of the next core's sink
Emit_WriteBegin(t) ==
    /\ phase = "returned"
    /\ pc[t] = "write"
    /\ LET i == job[t].cores[idx[t]] IN
       /\ Excludes(i) => Writing(i) = {}
       /\ raced' = IF Writing(i) # {} THEN raced \cup {t} \cup Writing(i)
                   ELSE raced
    /\ pc' = [pc EXCEPT ![t] = "writing"]
    /\ UNCHANGED <<options, phase, newErr, logger, prov, sink, emitted, idx,
                   firstErr, first, call, closes, faults, synced, unreported,
                   job, writerLocked, atError,
                   encType, built,
                   cleanup,
                   rec,
                   cloud,
                   ctx,
                   ctxFields,
                   encoded>>

\* the Write returns; after the last core the emit method returns, or the
\* process exits
Emit_WriteEnd(t, outcome) ==
    /\ phase = "returned"
    /\ pc[t] = "writing"
    /\ LET i == job[t].cores[idx[t]]
           n == Len(job[t].cores)
           entry == [id |-> job[t].id, lvl |-> job[t].lvl]
       IN
       /\ outcome \in Outcomes(t, i)
       /\ sink' = SinkAfter(sink, i, entry, outcome)
       /\ prov' = IF outcome = "whole" /\ prov[i].kind = "file"
                  THEN [prov EXCEPT ![i].open = TRUE] ELSE prov
       /\ faults' = IF outcome = "failed" THEN faults + 1 ELSE faults
       /\ unreported' = (unreported \/ outcome = "failed")
       /\ raced' = raced \ {t}
       /\ job' = [job EXCEPT ![t].out = Append(@, outcome)]
       /\ IF ExitsAfter(job[t].lvl, idx[t], n)
          THEN /\ phase' = "exited"
               /\ pc' = [pc EXCEPT ![t] = "exit"]
               /\ idx' = idx
          ELSE IF idx[t] < n
          THEN /\ pc' = [pc EXCEPT ![t] = "write"]
               /\ idx' = [idx EXCEPT ![t] = @ + 1]
               /\ phase' = phase
          ELSE /\ pc' = [pc EXCEPT ![t] = "idle"]
               /\ idx' = [idx EXCEPT ![t] = 0]
               /\ phase' = phase
    /\ UNCHANGED <<options, newErr, logger, emitted, firstErr, first, call,
                   closes, synced, writerLocked, atError,
                   encType, built,
                   cleanup,
                   rec,
                   cloud,
                   ctx,
                   ctxFields,
                   encoded>>

EmitCheckAny == \E t \in Threads : \E lvl \in ConcLevels : Emit_Check(t, lvl)
EmitWriteBeginAny == \E t \in Threads : Emit_WriteBegin(t)
EmitWriteEndAny ==
    \E t \in Threads : \E outcome \in {"whole", "lost", "torn", "failed"} :
        Emit_WriteEnd(t, outcome)

\* Concurrent emission: a logger of up to MaxConcProviders destinations at
\* the default level, the caller's writer with or without a lock of its
\* own, and every thread emitting up to MaxThreadEmits records.
InitConc ==
    /\ options \in ConcLists
    /\ InitBase
    /\ rec = NoRecord
    /\ ctx = Background
    /\ writerLocked \in BOOLEAN
    /\ encType = JSONEncoder

NextConc == NewLogger \/ EmitCheckAny \/ EmitWriteBeginAny \/ EmitWriteEndAny

SpecConc == InitConc /\ [][NextConc]_vars

(* -------------------------------- Close -------------------------------- *)
\* A core's Sync can fail for stdout (os.Stdout.Sync), the caller's writer
\* when it has a Sync method, and the cloud logger's Flush; the file's
\* lumberjack writer has no Sync and zapcore.AddSync gives it a no-op.
CanSyncFail(st) == st.kind \in {"stdout", "writer", "gcp"}

\* ENOTTY is what os.Stdout.Sync() gives when stdout is a terminal or a
\* pipe.
CanSyncBenign(st) == st.kind = "stdout"

Event(op, p, err) == [op |-> op, p |-> p, err |-> err]

\* The error of the Sync of core i: F are the cores whose Sync fails, B
\* those of them that fail with ENOTTY (the others: EIO).
SyncErr(i, F, B) ==
    IF i \in B THEN PathError("sync failed", {i}, {ENOTTY})
    ELSE IF i \in F THEN PathError("sync failed", {i}, {EIO})
    ELSE Nil

\* mutation of SyncEvents: the tee stops at the first core whose Sync fails
SyncEvents_stopAtFirstError(F, B) ==
    LET n == IF F = {} THEN Len(logger.cores)
             ELSE CHOOSE x \in F : \A y \in F : x <= y
    IN [i \in 1..n |->
          Event("sync", logger.cores[i].p, SyncErr(i, F, B))]

\* what one zapLogger.Sync() does, in core order: the tee syncs every core
SyncEvents(F, B) ==
    [i \in DOMAIN logger.cores |->
        Event("sync", logger.cores[i].p, SyncErr(i, F, B))]

\* multierr.Append over the results of the cores: nil when none failed,
\* else one error that holds every failure
JoinErrors(ev) ==
    LET bad == {a \in DOMAIN ev : ev[a].err # Nil} IN
    IF bad = {} THEN Nil
    ELSE PathError("sync failed",
                   UNION {ev[a].err.at : a \in bad},
                   UNION {ev[a].err.errno : a \in bad})

\* mutation of zapSync: the errors of the cores are dropped
zapSync_errorsDropped(F, B) == Nil

\* zapLogger.Sync(): the tee syncs every core and joins their errors.
zapSync(F, B) == JoinErrors(SyncEvents(F, B))

\* Close, first half: firstErr from zapLogger.Sync()
Close_firstErr(F, B) ==
    LET err == zapSync(F, B) IN
    IF err # Nil THEN Wrap("zap sync error", err) ELSE Nil

\* mutation of Close_return: the error of closeProviders overwrites firstErr
Close_return_lastWins(fe, err) == IF err # Nil THEN err ELSE fe

\* Close, the value returned: firstErr unless it is nil and closeProviders
\* returned an error
Close_return(fe, err) == IF err # Nil /\ fe = Nil THEN err ELSE fe

\* l.Sync(): zapLogger.Sync() and nothing else; its error is returned as
\* it is.
Sync(F, B) ==
    /\ phase = "returned"
    /\ logger.ok
    /\ synced.n < MaxSyncs
    /\ F \subseteq {i \in DOMAIN logger.cores : CanSyncFail(prov[logger.cores[i].p])}
    /\ B \subseteq {i \in F : CanSyncBenign(prov[logger.cores[i].p])}
    /\ faults + Cardinality(F) <= MaxFaults
    /\ faults' = faults + Cardinality(F)
    /\ synced' = [n |-> synced.n + 1,
                  ev |-> SyncEvents(F, B),
                  ret |-> zapSync(F, B),
                  pending |-> unreported]
    /\ unreported' = FALSE
    /\ UNCHANGED <<options, phase, newErr, logger, prov, sink, emitted,
                   pc, idx, firstErr, first, call, closes,
                   job, raced, writerLocked, atError,
                   encType, built,
                   cleanup,
                   rec,
                   cloud,
                   ctx,
                   ctxFields,
                   encoded>>

SyncAny == \E F \in SUBSET DOMAIN prov : \E B \in SUBSET F : Sync(F, B)

\* Flushing: a logger of up to MaxProviders destinations, synced.
InitSync ==
    /\ options \in GoodLists(MaxProviders)
    /\ InitRest

NextSync == NewLogger \/ SyncAny

SpecSync == InitSync /\ [][NextSync]_vars

\* l.Close() by thread t up to the call of closeProviders: the flush.
Close_Sync(t, F, B) ==
    /\ phase = "returned"
    /\ logger.ok
    /\ pc[t] = "idle"
    /\ closes.begun < MaxCloses
    /\ F \subseteq {i \in DOMAIN logger.cores : CanSyncFail(prov[logger.cores[i].p])}
    /\ B \subseteq {i \in F : CanSyncBenign(prov[logger.cores[i].p])}
    /\ faults + Cardinality(F) <= MaxFaults
    /\ faults' = faults + Cardinality(F)
    /\ call' = [call EXCEPT ![t] = [n |-> closes.begun + 1,
                                    seen |-> closes.returned,
                                    ev |-> SyncEvents(F, B),
                                    ret |-> Nil, done |-> FALSE,
                                    pending |-> unreported]]
    /\ unreported' = FALSE
    /\ closes' = [closes EXCEPT !.begun = @ + 1]
    /\ firstErr' = [firstErr EXCEPT ![t] = Close_firstErr(F, B)]
    /\ first' = [first EXCEPT ![t] = Nil]
    /\ idx' = [idx EXCEPT ![t] = 1]
    /\ pc' = [pc EXCEPT ![t] = "closeProviders"]
    /\ UNCHANGED <<options, phase, newErr, logger, prov, sink, emitted, synced,
                   job, raced, writerLocked, atError,
                   encType, built,
                   cleanup,
                   rec,
                   cloud,
                   ctx,
                   ctxFields,
                   encoded>>

\* mutation of Close_logger: Close turns the cores off (no level passes)
Close_logger_silenced(l) ==
    [l EXCEPT !.cores = [i \in DOMAIN @ |-> [@[i] EXCEPT !.level = ZapFatal + 1]]]

\* mutation of Close_logger: Close forgets the providers it has closed
Close_logger_closersDropped(l) == [l EXCEPT !.closers = <<>>]

\* The Logger when Close returns: Close assigns no field of l.
Close_logger(l) == l

\* One iteration of closeProviders(l.closers) in thread t's Close; after
\* the last one Close returns.
Close_Provider(t, fail) ==
    /\ phase = "returned"
    /\ pc[t] = "closeProviders"
    /\ idx[t] <= Len(logger.closers)
    /\ LET i == logger.closers[idx[t]]
           s == closeProvidersStep(prov, i, fail, first[t])
           ev == Append(call[t].ev, Event("close", i, s.err))
       IN
       /\ fail => CanCloseFail(prov[i]) /\ faults < MaxFaults
       /\ faults' = IF fail THEN faults + 1 ELSE faults
       /\ prov' = s.prov
       /\ IF idx[t] < Len(logger.closers)
          THEN /\ idx' = [idx EXCEPT ![t] = @ + 1]
               /\ first' = [first EXCEPT ![t] = s.first]
               /\ call' = [call EXCEPT ![t].ev = ev]
               /\ UNCHANGED <<pc, firstErr, closes, logger>>
          ELSE /\ call' = [call EXCEPT ![t].ev = ev,
                                       ![t].ret = Close_return(firstErr[t], s.first),
                                       ![t].done = TRUE]
               /\ closes' = [closes EXCEPT !.returned = @ + 1]
               /\ logger' = Close_logger(logger)
               /\ pc' = [pc EXCEPT ![t] = "idle"]
               /\ idx' = [idx EXCEPT ![t] = 0]
               /\ first' = [first EXCEPT ![t] = Nil]
               /\ firstErr' = [firstErr EXCEPT ![t] = Nil]
    /\ UNCHANGED <<options, phase, newErr, sink, emitted,
                   synced, unreported, job, raced, writerLocked, atError,
                   encType, built,
                   cleanup,
                   rec,
                   cloud,
                   ctx,
                   ctxFields,
                   encoded>>

CloseSyncAny ==
    \E t \in Threads : \E F \in SUBSET DOMAIN prov : \E B \in SUBSET F :
        Close_Sync(t, F, B)
CloseProviderAny ==
    \E t \in Threads : \E fail \in BOOLEAN : Close_Provider(t, fail)

\* Shutdown: a logger of up to MaxCloseProviders destinations at the default
\* level, closed by up to two threads.
InitClose ==
    /\ options \in GoodLists(MaxCloseProviders)
    /\ InitRest

NextClose == NewLogger \/ CloseSyncAny \/ CloseProviderAny

SpecClose == InitClose /\ [][NextClose]_vars

\* A logger's life on one goroutine: construction, then up to MaxLifeOps
\* emit, Sync and Close calls in any order.
LifeOps == Len(emitted) + synced.n + closes.begun
LifeEmit == LifeOps < MaxLifeOps /\ EmitAny
LifeSync == LifeOps < MaxLifeOps /\ SyncAny
LifeCloseSync ==
    /\ LifeOps < MaxLifeOps
    /\ \E F \in SUBSET DOMAIN prov : \E B \in SUBSET F : Close_Sync("t1", F, B)
LifeCloseProvider == \E fail \in BOOLEAN : Close_Provider("t1", fail)

\* the loggers of these runs: the caller's writer and the rotating file,
\* in either order
InitLife ==
    /\ options \in ConcLists
    /\ InitRest

NextLife ==
    NewLogger \/ LifeEmit \/ LifeSync \/ LifeCloseSync \/ LifeCloseProvider

SpecLife == InitLife /\ [][NextLife]_vars

\* the loggers whose sinks belong to the caller: standard output and the
\* caller's writer, alone or together, in either order
OwnLists ==
    {os \in SeqsUpTo({WithStdOutProvider(JSONEncoder),
                      WithWriterProvider(JSONEncoder)},
                     MaxConcProviders) : os # <<>> /\ DistinctKinds(os)}

\* The life of a logger that owns none of its sinks, at any threshold.
InitOwn ==
    /\ \E os \in OwnLists : \E l \in {InfoLevel, ErrorLevel} :
          options = Append(os, WithLevel(l))
    /\ InitRest

SpecOwn == InitOwn /\ [][NextLife]_vars

\* The whole logger: construction, emission and shutdown together, on the
\* loggers of the shutdown runs.
Init == InitClose
Next == NewLogger \/ EmitAny \/ SyncAny \/ CloseSyncAny \/ CloseProviderAny
Spec == Init /\ [][Next]_vars

(* ------------------------------- fields -------------------------------- *)
\* A Field is a key and a value of any Go type; a value is given by its
\* dynamic type and its text.
Value(type, v) == [type |-> type, v |-> v]
String(key, value) == [Key |-> key, Value |-> Value("string", value)]
IntField(key, value) == [Key |-> key, Value |-> Value("int", value)]
Float64(key, value) == [Key |-> key, Value |-> Value("float64", value)]
Err(err) == [Key |-> "error", Value |-> Value("error", err)]
Duration(key, value) == [Key |-> key, Value |-> Value("time.Duration", value)]
AnyField(key, value) == [Key |-> key, Value |-> value]

\* zap's field constructors: a zapcore.Field is a key, a field type and
\* the value; zap.Error(err) is zap.NamedError("error", err)
ZapField(key, type, v) == [Key |-> key, Type |-> type, v |-> v]
zapError(v) == ZapField("error", "ErrorType", v)

\* mutation of toZapField: every value is handed to zap.Any under the
\* field's key
toZapField_anyForAll(f) == ZapField(f.Key, "ReflectType", f.Value.v)

\* one iteration of toZapFields' loop: the type switch on f.Value
toZapField(f) ==
    CASE f.Value.type = "string" -> ZapField(f.Key, "StringType", f.Value.v)
      [] f.Value.type = "int" -> ZapField(f.Key, "Int64Type", f.Value.v)
      [] f.Value.type = "float64" -> ZapField(f.Key, "Float64Type", f.Value.v)
      [] f.Value.type = "error" -> zapError(f.Value.v)
      [] f.Value.type = "time.Duration" ->
             ZapField(f.Key, "DurationType", f.Value.v)
      [] OTHER -> ZapField(f.Key, "ReflectType", f.Value.v)

toZapFields(fields) == [i \in DOMAIN fields |-> toZapField(fields[i])]

\* most fields of a record in the runs on single records
MaxFields == 2

\* the fields these runs pass: of several types, two of the same key, an
\* error under a key of the caller's and under the key of Err, and fields
\* under the keys the cloud sink sets itself
FieldValues ==
    {String("k", "a"), IntField("k", "7"), String("message", "b"),
     String("source_file", "c"), AnyField("cause", Value("error", "boom")),
     Err("boom")}

\* what zap found of the caller (zap.AddCaller): nothing, or file, line
\* and function
Callers ==
    {<<>>, <<[File |-> "main.go", Line |-> "42", Function |-> "main.run"]>>}

\* the records of these runs: emitted through Debug .. Fatal
Records ==
    {[lvl |-> MethodLevel(l), msg |-> "m", time |-> tm, caller |-> c,
      fields |-> fs] :
        l \in Levels, tm \in {1, 2}, c \in Callers,
        fs \in SeqsUpTo(FieldValues, MaxFields)}

(* ------------------------------ context ------------------------------- *)
\* the ContextKey constants, in the order FieldsFromContext asks for them
KnownKeys ==
    <<"correlation_id", "request_id", "user_id", "trace_id", "span_id">>

\* context.WithValue(c, key, val)
WithValue(c, key, val) ==
    [c EXCEPT !.chain = Append(@, [key |-> key, val |-> val])]

\* WithCorrelationID, WithRequestID, WithUserID, WithTraceID, WithSpanID:
\* the five have the same body, each with its own key
WithID(c, key, id) ==
    IF id = "" THEN c ELSE WithValue(c, key, Value("string", id))

\* mutation of ctxValue: the value attached first is found
ctxValue_oldest(c, key) ==
    LET at == {a \in DOMAIN c.chain : c.chain[a].key = key} IN
    IF at = {} THEN Value("nil", "")
    ELSE c.chain[CHOOSE a \in at : \A b \in at : a <= b].val

\* c.Value(key): the chain is searched from the newest value to the
\* oldest; nil when the key is not there
RECURSIVE ctxValueFrom(_, _, _)
ctxValueFrom(c, key, a) ==
    IF a = 0 THEN Value("nil", "")
    ELSE IF c.chain[a].key = key THEN c.chain[a].val
    ELSE ctxValueFrom(c, key, a - 1)
ctxValue(c, key) == ctxValueFrom(c, key, Len(c.chain))

\* v, _ := ctx.Value(key).(string): the empty string for what is no string
AsString(val) == IF val.type = "string" THEN val.v ELSE ""

\* one of the five ifs of FieldsFromContext
FieldFor(c, key) ==
    LET v == AsString(ctxValue(c, key)) IN
    IF v # "" THEN <<String(key, v)>> ELSE <<>>

FieldsFromContext(c) ==
    IF c.nil THEN <<>>
    ELSE FieldFor(c, "correlation_id") \o FieldFor(c, "request_id")
         \o FieldFor(c, "user_id") \o FieldFor(c, "trace_id")
         \o FieldFor(c, "span_id")

\* most With...ID and context.WithValue calls per run
MaxAttach == 3

\* the ids the runs pass, and the values a caller attaches with
\* context.WithValue itself: an empty string, something that is no string
Ids3 == {"", "a", "b"}
ForeignValues == {Value("string", ""), Value("int", "7")}
Attached == Len(ctx.calls)

\* one of the five With...ID functions is called; context.WithValue panics
\* on a nil parent, so a nil context is only passed with an empty id
WithIDCall(f, id) ==
    /\ ctxFields = <<>>
    /\ Attached < MaxAttach
    /\ ctx.nil => id = ""
    /\ LET c == WithID(ctx, f, id)
       IN ctx' = [c EXCEPT !.calls = Append(@, [fn |-> "WithID", key |-> f,
                                                 id |-> id,
                                                 at |-> Len(c.chain)])]
    /\ UNCHANGED <<options, phase, newErr, logger, prov, sink, emitted,
                   pc, idx, firstErr, first, call, closes, faults,
                   synced, unreported, job, raced, writerLocked, atError,
                   encType, built, cleanup, rec, cloud, ctxFields,
                   encoded>>

\* the caller attaches a value of its own under one of the keys
WithValueCall(key, val) ==
    /\ ctxFields = <<>>
    /\ Attached < MaxAttach
    /\ ~ctx.nil
    /\ LET c == WithValue(ctx, key, val) IN
       ctx' = [c EXCEPT !.calls = Append(@, [fn |-> "WithValue", key |-> key,
                                             id |-> val.v,
                                             at |-> Len(c.chain)])]
    /\ UNCHANGED <<options, phase, newErr, logger, prov, sink, emitted,
                   pc, idx, firstErr, first, call, closes, faults,
                   synced, unreported, job, raced, writerLocked, atError,
                   encType, built, cleanup, rec, cloud, ctxFields,
                   encoded>>

FieldsFromContextCall ==
    /\ ctxFields = <<>>
    /\ ctxFields' = <<FieldsFromContext(ctx)>>
    /\ UNCHANGED <<options, phase, newErr, logger, prov, sink, emitted,
                   pc, idx, firstErr, first, call, closes, faults,
                   synced, unreported, job, raced, writerLocked, atError,
                   encType, built, cleanup, rec, cloud, ctx,
                   encoded>>

WithIDCallAny ==
    \E a \in DOMAIN KnownKeys : \E id \in Ids3 : WithIDCall(KnownKeys[a], id)
WithValueCallAny ==
    \E key \in {"correlation_id", "span_id"} : \E val \in ForeignValues :
        WithValueCall(key, val)

\* Contexts: from nil or context.Background(), up to MaxAttach values
\* attached, then FieldsFromContext.
InitCtx ==
    /\ options = <<>>
    /\ InitBase
    /\ writerLocked = FALSE
    /\ encType = JSONEncoder
    /\ rec = NoRecord
    /\ ctx \in {NilCtx, Background}

NextCtx == WithIDCallAny \/ WithValueCallAny \/ FieldsFromContextCall

SpecCtx == InitCtx /\ [][NextCtx]_vars

(* ----------------------------- cloud sink ------------------------------ *)
\* a map with the entries of g put over those of f
Override(f, g) ==
    [k \in DOMAIN f \cup DOMAIN g |-> IF k \in DOMAIN g THEN g[k] ELSE f[k]]
EmptyMap == [k \in {} |-> ""]

\* zapcore.MapObjectEncoder after f.AddTo(enc) for each field in turn: a
\* later field of the same key replaces the earlier one
RECURSIVE MapEncode(_, _)
MapEncode(m, zfields) ==
    IF zfields = <<>> THEN m
    ELSE MapEncode(Override(m, [k \in {Head(zfields).Key} |-> Head(zfields).v]),
                   Tail(zfields))
\* logging.Severity, by name
\* mutation of levelToSeverity: Fatal is given the severity of DPanic
levelToSeverity_fatalAsCritical(lvl) ==
    CASE lvl = ZapDebug -> "DEBUG"
      [] lvl = ZapInfo -> "INFO"
      [] lvl = ZapWarn -> "WARNING"
      [] lvl = ZapError -> "ERROR"
      [] lvl = ZapDPanic -> "CRITICAL"
      [] lvl = ZapPanic -> "ALERT"
      [] lvl = ZapFatal -> "CRITICAL"
      [] OTHER -> "DEFAULT"

levelToSeverity(lvl) ==
    CASE lvl = ZapDebug -> "DEBUG"
      [] lvl = ZapInfo -> "INFO"
      [] lvl = ZapWarn -> "WARNING"
      [] lvl = ZapError -> "ERROR"
      [] lvl = ZapDPanic -> "CRITICAL"
      [] lvl = ZapPanic -> "ALERT"
      [] lvl = ZapFatal -> "EMERGENCY"
      [] OTHER -> "DEFAULT"

\* mutation of gcpWrite: the fields are put over message and caller
gcpWrite_fieldsLast(cfields, r) ==
    LET caller == IF r.caller # <<>>
                  THEN [k \in {"source_file", "source_line", "source_function"} |->
                          CASE k = "source_file" -> r.caller[1].File
                            [] k = "source_line" -> r.caller[1].Line
                            [] OTHER -> r.caller[1].Function]
                  ELSE EmptyMap
        base == Override(Override(cfields, [k \in {"message"} |-> r.msg]), caller)
    IN [Timestamp |-> r.time,
        Severity |-> levelToSeverity(r.lvl),
        Payload |-> MapEncode(base, r.fields)]

\* gcpZapCore.Write: the logging.Entry handed to c.logger.Log; cfields is
\* c.fields
gcpWrite(cfields, r) ==
    LET p1 == MapEncode(cfields, r.fields)
        p2 == Override(p1, [k \in {"message"} |-> r.msg])
        p3 == IF r.caller # <<>>
              THEN Override(p2,
                      [k \in {"source_file", "source_line", "source_function"} |->
                          CASE k = "source_file" -> r.caller[1].File
                            [] k = "source_line" -> r.caller[1].Line
                            [] OTHER -> r.caller[1].Function])
              ELSE p2
    IN [Timestamp |-> r.time,
        Severity |-> levelToSeverity(r.lvl),
        Payload |-> p3]

\* the record as the emit method hands it to zap: l.zapLogger.Info(msg,
\* toZapFields(fields)...)
Emitted(r) == [r EXCEPT !.fields = toZapFields(@)]

\* The cloud core of destination i is handed the record: Check, then Write
\* (which always returns nil).
CloudWrite(i) ==
    /\ phase = "returned"
    /\ logger.ok
    /\ i \in DOMAIN prov
    /\ prov[i].kind = "gcp"
    /\ cloud = <<>>
    /\ Enabled(i, rec.lvl)
    /\ cloud' = Append(cloud, gcpWrite(EmptyMap, Emitted(rec)))
    /\ sink' = [sink EXCEPT ![i] = Append(@, [id |-> Len(@) + 1, lvl |-> rec.lvl])]
    /\ UNCHANGED <<options, phase, newErr, logger, prov, emitted,
                   pc, idx, firstErr, first, call, closes, faults,
                   synced, unreported, job, raced, writerLocked, atError,
                   encType, built, cleanup, rec,
                   ctx,
                   ctxFields,
                   encoded>>

CloudWriteAny == \E i \in DOMAIN prov : CloudWrite(i)

\* The attributes zap's JSON encoder writes for the fields of a record,
\* after level, time, caller and message: one per field, in order, under
\* the key of the zapcore.Field.
jsonFields(r) == [a \in DOMAIN r.fields |-> [key |-> r.fields[a].Key,
                                             v |-> r.fields[a].v]]

\* The core of the writer destination i is handed the record: Check, then
\* Write, which encodes the entry and writes the line to p.writer.
WriterWrite(i) ==
    /\ phase = "returned"
    /\ logger.ok
    /\ i \in DOMAIN prov
    /\ prov[i].kind = "writer"
    /\ encoded = <<>>
    /\ Enabled(i, rec.lvl)
    /\ encoded' = <<jsonFields(Emitted(rec))>>
    /\ sink' = [sink EXCEPT ![i] = Append(@, [id |-> Len(@) + 1, lvl |-> rec.lvl])]
    /\ UNCHANGED <<options, phase, newErr, logger, prov, emitted,
                   pc, idx, firstErr, first, call, closes, faults,
                   synced, unreported, job, raced, writerLocked, atError,
                   encType, built, cleanup, rec, cloud, ctx, ctxFields>>

\* One record of any level and fields handed to a cloud destination and
\* a writer destination of threshold Debug or Warn.
InitCloud ==
    /\ \E l \in {DebugLevel, WarnLevel} :
          options = <<WithGCPProvider(FALSE), WithWriterProvider(JSONEncoder),
                      WithLevel(l)>>
    /\ InitBase
    /\ writerLocked = FALSE
    /\ encType = JSONEncoder
    /\ rec \in Records
    /\ ctx = Background

NextCloud == NewLogger \/ CloudWriteAny \/ (\E i \in DOMAIN prov : WriterWrite(i))

SpecCloud == InitCloud /\ [][NextCloud]_vars

(* ======================================================================= *)
(*                               properties                                *)
(* ======================================================================= *)
\* the number of destinations
NumDest == Len(prov)
Config == ApplyOptions(DefaultConfig, options)

\* the call of a thread was made after an earlier Close had returned and
\* with no other call in progress: a second Close "in sequence"
Sequential(t) == call[t].n = 2 /\ call[t].seen = 1 /\ closes.begun = 2

\* C1: calling Close twice in sequence invokes each destination's release
\* (provider close) exactly once in total, and the second Close returns no
\* error.
C1_CloseTwiceReleasesOnce ==
    \A t \in Threads :
        Sequential(t) /\ call[t].done =>
            /\ \A i \in 1..NumDest : prov[i].closeCalls = 1
            /\ call[t].ret = Nil

\* C2: when two threads call Close concurrently, each destination's
\* release is invoked exactly once under every interleaving.
C2_ConcurrentCloseReleasesOnce ==
    (\E t \in Threads : call[t].n = 2 /\ call[t].seen = 0)
    /\ closes.returned = 2
        => \A i \in 1..NumDest : prov[i].closeCalls = 1

\* C3: once a Close has returned (with an error or not), a later Close
\* touches no destination (no flush, no release) and returns no error.
C3_LaterCloseIsNoOp ==
    \A t \in Threads :
        call[t].seen >= 1 => call[t].ev = <<>> /\ call[t].ret = Nil

\* the positions (in cfg.providers) of the badly configured providers
BadPositions ==
    {i \in 1..Len(Config.providers) :
        \E o \in BadProviderOptions : o.p = Config.providers[i]}

\* the cause each kind of provider reports when it cannot be initialised
CauseOf(kind) ==
    CASE kind \in {"stdout", "writer"} -> <<"unsupported encoder type">>
      [] kind = "gcp" -> <<"gcpProvider: failed to create client", "NewClient failed">>
      [] kind = "file" -> <<"fileProvider: rotation parameters must be non-negative">>

\* C4: if the k-th destination fails to initialise, destinations 1..k-1
\* have been released when NewLogger returns (their close called once, the
\* client or file they hold released), the error is non-nil and wraps the
\* cause, and no Logger is returned; a Logger is returned iff the error is
\* nil.
C4_PartialInitReleased ==
    phase = "returned" =>
        /\ logger.ok <=> newErr = Nil
        /\ BadPositions # {} =>
              LET k == Min(BadPositions) IN
              /\ \A j \in 1..(k - 1) :
                    /\ prov[j].closeCalls = 1
                    /\ ~prov[j].open
                    /\ prov[j].kind \in {"gcp", "file"} => prov[j].relCalls = 1
              /\ newErr # Nil
              /\ newErr.chain =
                    <<"failed to initialise provider">> \o CauseOf(prov[k].kind)
              /\ newErr.at = {k}
              /\ logger = NoLogger

\* C4 witness: the third of three destinations failed after a file and a
\* cloud destination had been initialised, and both were released.
C4_Witness ==
    /\ phase = "returned"
    /\ NumDest = 3
    /\ BadPositions = {3}
    /\ prov[1].kind = "file" /\ prov[1].relCalls = 1
    /\ prov[2].kind = "gcp" /\ prov[2].relCalls = 1
    /\ newErr # Nil

\* C5: NewLogger with options that register no destination returns an
\* error and no Logger, and initialises nothing.
C5_NoDestinations ==
    phase = "returned" /\ (\A k \in DOMAIN options : options[k].opt = "level") =>
        /\ newErr = NewError("no providers specified", {})
        /\ logger = NoLogger
        /\ prov = <<>>

\* C5 witness: NewLogger(WithLevel(WarnLevel)) has returned.
C5_Witness ==
    phase = "returned" /\ options = <<WithLevel(WarnLevel)>> /\ newErr # Nil

\* the threshold the options ask for, and the entries of sink i that come
\* from emit call k
Threshold == Config.level
Copies(i, k) == Cardinality({j \in DOMAIN sink[i] : sink[i][j].id = k})
Accepted(k) == emitted[k].lvl >= Threshold

\* C6: an emit at level L on a logger of threshold T adds exactly one entry
\* to each destination when L >= T (none to a destination whose own write
\* failed), and when L < T adds nothing and leaves every destination
\* unchanged.
C6_ThresholdFiltering ==
    [][Len(emitted') = Len(emitted) + 1 =>
          LET k == Len(emitted')
              e == emitted'[k]
          IN
          IF e.lvl >= Threshold
          THEN \A i \in 1..NumDest :
                  sink'[i] = IF i \in e.fail THEN sink[i]
                             ELSE Append(sink[i], [id |-> k, lvl |-> MethodLevel(e.lvl)])
          ELSE sink' = sink /\ prov' = prov /\ e.fail = {}]_vars

\* C6 witness: on a logger of threshold Warn, an Info emit left the sinks
\* empty and an Error emit then put one entry into each.
C6_Witness ==
    /\ Threshold = WarnLevel
    /\ NumDest >= 2
    /\ Len(emitted) = 2
    /\ emitted[1].lvl = InfoLevel
    /\ emitted[2].lvl = ErrorLevel
    /\ \A i \in 1..NumDest : Len(sink[i]) = 1 /\ sink[i][1].id = 2

\* C7: on a logger of N destinations (N = 1..4), a record emitted at an
\* accepted level is in each of the N destinations exactly once when no
\* write fails.
C7_FanOutComplete ==
    \A k \in DOMAIN emitted :
        Accepted(k) /\ emitted[k].fail = {} =>
            \A i \in 1..NumDest : Copies(i, k) = 1

\* C7 witness: a logger of four destinations holds one accepted record,
\* once in each of the four.
C7_Witness ==
    /\ NumDest = 4
    /\ Len(emitted) >= 1
    /\ Accepted(1) /\ emitted[1].fail = {}
    /\ \A i \in 1..4 : Copies(i, 1) = 1

\* C8: when the write of one destination fails during an emit, every other
\* destination still receives that record, whatever the position of the
\* failing one.
C8_FailureIsolated ==
    \A k \in DOMAIN emitted :
        Accepted(k) /\ emitted[k].fail # {} =>
            \A i \in 1..NumDest : i \notin emitted[k].fail => Copies(i, k) = 1

\* C8 witness: the first of three or more destinations failed its write
\* and every later one holds the record.
C8_Witness ==
    /\ NumDest >= 3
    /\ Len(emitted) >= 1
    /\ Accepted(1) /\ emitted[1].fail = {1}
    /\ Copies(1, 1) = 0
    /\ \A i \in 2..NumDest : Copies(i, 1) = 1

\* the positions of the events of one kind in the event list of a call
At(ev, op) == {a \in DOMAIN ev : ev[a].op = op}

\* C9: within one Close, every destination has been flushed before the
\* first release is invoked, and the releases are invoked in registration
\* order, the order of the provider options.
C9_FlushThenReleaseInOrder ==
    \A t \in Threads :
        LET ev == call[t].ev IN
        /\ \A a \in At(ev, "close") :
              /\ a > NumDest
              /\ \A j \in 1..NumDest : ev[j].op = "sync" /\ ev[j].p = j
              /\ ev[a].p = a - NumDest
        /\ \A i \in 1..NumDest : prov[i].kind = Config.providers[i].kind

\* C9 witness: a Close on two destinations has returned after two flushes
\* and two releases.
C9_Witness ==
    \E t \in Threads :
        /\ call[t].done
        /\ NumDest = 2
        /\ Len(call[t].ev) = 4
        /\ call[t].ev[3].op = "close" /\ call[t].ev[4].op = "close"

\* the events of a call that failed
Failed(ev, op) == {a \in At(ev, op) : ev[a].err # Nil}

C11_SyncFlushesAll ==
    synced.n > 0 =>
        LET ev == synced.ev IN
        /\ Len(ev) = NumDest
        /\ \A j \in 1..NumDest : ev[j].op = "sync" /\ ev[j].p = j
        /\ synced.ret # Nil <=> Failed(ev, "sync") # {}
        /\ Failed(ev, "sync") # {} =>
              /\ ev[Min(Failed(ev, "sync"))].p \in synced.ret.at
              /\ synced.ret.chain = <<"sync failed">>

\* C11 witness: the first of three or more flushes failed, the later ones
\* were still asked for and one of them failed too.
C11_Witness ==
    /\ synced.n > 0
    /\ NumDest >= 3
    /\ 1 \in Failed(synced.ev, "sync")
    /\ Cardinality(Failed(synced.ev, "sync")) = 2
    /\ synced.ret.at = {synced.ev[a].p : a \in Failed(synced.ev, "sync")}

\* the system errors of the flushes of a call that failed
FlushErrnos(ev) == UNION {ev[a].err.errno : a \in Failed(ev, "sync")}

\* C12: Close does not report a flush error of the benign class (ENOTTY from
\* syncing a console stream): when the flushes failed with nothing but
\* ENOTTY and no release failed, Close returns nil; a flush that failed
\* with any other error (EIO) is returned by Close.
C12_BenignFlushErrorFiltered ==
    \A t \in Threads :
        call[t].done =>
            LET ev == call[t].ev IN
            /\ FlushErrnos(ev) = {ENOTTY} /\ Failed(ev, "close") = {}
                  => call[t].ret = Nil
            /\ EIO \in FlushErrnos(ev)
                  => call[t].ret # Nil /\ EIO \in call[t].ret.errno

\* C13: a Fatal emit hands the record to every destination through the
\* fan-out, and the process exits only after the write to the last
\* destination has been attempted: when the process has exited, the Fatal
\* call has called the Write of every destination, in order, and the record
\* is in every destination whose Write neither failed nor raced with another
\* on an unguarded sink.
C13_FatalExitsAfterFanOut ==
    phase = "exited" =>
        \A t \in Threads :
            pc[t] = "exit" =>
                /\ job[t].lvl = ZapFatal
                /\ job[t].cores = [i \in 1..NumDest |-> i]
                /\ Len(job[t].out) = NumDest
                /\ \A i \in 1..NumDest :
                      /\ job[t].out[i] = "whole" => Copies(i, job[t].id) = 1
                      /\ job[t].out[i] \in {"lost", "torn"} => ~Excludes(i)

\* C13 witness: the process has exited from a Fatal call on two
\* destinations and both hold its record.
C13_Witness ==
    /\ phase = "exited"
    /\ NumDest = 2
    /\ \E t \in Threads :
          /\ pc[t] = "exit"
          /\ job[t].out = <<"whole", "whole">>
          /\ Copies(1, job[t].id) = 1 /\ Copies(2, job[t].id) = 1

\* every thread has made all its emit calls and returned from them
Finished == \A t \in Threads : pc[t] = "idle" /\ job[t].n = MaxThreadEmits

\* C14: when W threads have each emitted M accepted records through one
\* Logger into its single destination, the sink holds exactly W*M entries,
\* each record once and whole (no write having returned an error).
C14_ConcurrentEntriesComplete ==
    (/\ phase = "returned"
     /\ NumDest = 1
     /\ Finished
     /\ \A t \in Threads : job[t].acc = MaxThreadEmits
     /\ faults = 0)
        => /\ Len(sink[1]) = Cardinality(Threads) * MaxThreadEmits
           /\ \A t \in Threads : \A n \in 1..MaxThreadEmits :
                 Copies(1, RecordId(t, n)) = 1

\* C15: the writer and the file destination serialise their own writes: no
\* two Write calls on the same sink are in progress at the same time,
\* whether or not the caller's writer has a lock of its own.
C15_SinkWritesSerialised ==
    \A i \in 1..NumDest :
        prov[i].kind \in {"writer", "file"} => Cardinality(Writing(i)) <= 1

\* NewLogger was given a configuration error: no destination at all, or
\* the first destination that cannot be initialised is one with an unknown
\* encoder kind or a negative rotation parameter (not a cloud client that
\* could not be created)
NoDestinations == \A k \in DOMAIN options : options[k].opt = "level"
Misconfigured ==
    BadPositions # {} /\ Config.providers[Min(BadPositions)].kind # "gcp"

\* C16 as stated: on a configuration error NewLogger returns no Logger, and
\* when the error is detected no destination, those registered before the
\* misconfigured one included, has opened a client connection or a file.
C16_FailsBeforeAcquiring ==
    phase = "returned" /\ (NoDestinations \/ Misconfigured) =>
        /\ logger = NoLogger
        /\ \A i \in DOMAIN atError : ~atError[i].open

\* C16 amended: on a configuration error NewLogger returns an error and no
\* Logger.  No destination at all is detected before anything is
\* initialised.  A misconfigured destination is detected in its own turn: it
\* and the destinations after it hold nothing then, a destination before it
\* holds an open resource exactly if it is a cloud destination (its client
\* connection), and nothing is held any more when NewLogger returns.
C16_FailsAndHoldsNothing ==
    phase = "returned" /\ (NoDestinations \/ Misconfigured) =>
        /\ logger = NoLogger
        /\ newErr # Nil
        /\ NoDestinations => atError = <<>> /\ prov = <<>>
        /\ ~NoDestinations =>
              LET k == Min(BadPositions) IN
              /\ Len(atError) = NumDest
              /\ \A j \in k..NumDest :
                    ~atError[j].open /\ ~atError[j].handle
              /\ \A j \in 1..(k - 1) :
                    atError[j].open <=> atError[j].kind = "gcp"
              /\ \A i \in 1..NumDest : ~prov[i].open

\* C16 witness: a file destination with a negative rotation parameter
\* came after a cloud destination, whose connection was open when the error
\* was detected and closed when NewLogger returned.
C16_Witness ==
    /\ phase = "returned"
    /\ NumDest >= 2
    /\ BadPositions = {2}
    /\ prov[2].kind = "file"
    /\ atError[1].kind = "gcp" /\ atError[1].open
    /\ ~prov[1].open /\ prov[1].relCalls = 1
    /\ logger = NoLogger

\* the file destination the configuration runs end their options with
FilePos == Len(options)
FileParams == options[FilePos].p
AnyNegative ==
    FileParams.maxSize < 0 \/ FileParams.maxBackups < 0 \/ FileParams.maxAge < 0

C18_BuildEncoderFallback ==
    built # <<>> =>
        LET r == built[1] IN
        /\ r.err = Nil <=> encType \in {JSONEncoder, ConsoleEncoder}
        /\ r.err = Nil => r.enc = encType
        /\ r.err # Nil => /\ r.err.chain = <<"unsupported encoder type">>
                          /\ r.enc = "json"
        /\ r.enc # "nil"

\* C18 witness: buildEncoder("xml") has returned an error and the JSON
\* encoder.
C18_Witness ==
    /\ encType = "xml"
    /\ built # <<>>
    /\ built[1].err # Nil
    /\ built[1].enc = "json"

\* C19 as stated: a write that failed during an emit is reported by the
\* next Sync or Close, which returns a non-nil error.
C19_WriteFailureReportedAtFlush ==
    /\ synced.n > 0 /\ synced.pending => synced.ret # Nil
    /\ \A t \in Threads :
          call[t].done /\ call[t].pending => call[t].ret # Nil

\* C19 amended: a failed write is returned to nobody, neither by the emit
\* (which returns nothing) nor by a later Sync or Close: Sync returns a
\* non-nil error exactly when one of its own flushes failed, Close exactly
\* when one of its own flushes or releases failed, whether or not a write
\* had failed before.
C19_WriteFailureNotReported ==
    /\ synced.n > 0 =>
          (synced.ret # Nil <=> Failed(synced.ev, "sync") # {})
    /\ \A t \in Threads :
          call[t].done =>
              (call[t].ret # Nil <=>
                  Failed(call[t].ev, "sync") \cup Failed(call[t].ev, "close") # {})

\* C19 witness: a write failed, and the Sync and the Close that followed
\* it both returned nil.
C19_Witness ==
    /\ \E k \in DOMAIN emitted : emitted[k].fail # {}
    /\ synced.n > 0 /\ synced.pending /\ synced.ret = Nil
    /\ call["t1"].done /\ call["t1"].ret = Nil

\* C20: once NewLogger has returned a Logger, no emit, Sync or Close
\* changes its threshold or its destinations: the cores, their levels and
\* the providers to close stay what they were, in the same order, and no
\* destination changes its kind.
C20_LoggerImmutable ==
    [][logger.ok =>
          /\ logger' = logger
          /\ Len(prov') = Len(prov)
          /\ \A i \in DOMAIN prov : prov'[i].kind = prov[i].kind]_vars

\* C20 witness: an emit, a Sync and a Close have all been made on a logger
\* of two destinations, which still has its two cores at the threshold and
\* its two providers in registration order.
C20_Witness ==
    /\ Len(emitted) >= 1 /\ synced.n >= 1 /\ closes.returned >= 1
    /\ logger.ok
    /\ logger.closers = <<1, 2>>
    /\ logger.cores = [i \in 1..2 |-> [p |-> i, level |-> toZapLevel(Threshold)]]

\* the destinations NewLogger never initialised: the one whose newCore
\* failed and those after it
Uninitialised ==
    IF BadPositions = {} THEN {} ELSE Min(BadPositions)..NumDest

\* C21: releasing a file or cloud destination whose initialisation failed
\* or was never attempted, as NewLogger does when it gives up, is safe: its
\* close is called once, releases nothing (the underlying release is not
\* invoked even when it would fail) and returns no error.
C21_ReleaseOfUninitialisedSafe ==
    phase = "returned" =>
        \A j \in Uninitialised :
            prov[j].kind \in {"gcp", "file"} =>
                /\ ~atError[j].handle
                /\ prov[j].closeCalls = 1
                /\ prov[j].relCalls = 0
                /\ ~prov[j].open
                /\ j \notin cleanup.at

\* C21 witness: the file destination in second place was misconfigured and
\* the cloud destination after it never initialised; both were closed and
\* released nothing, while the release of the first destination failed.
C21_Witness ==
    /\ phase = "returned"
    /\ NumDest = 3
    /\ BadPositions = {2}
    /\ prov[2].kind = "file" /\ prov[3].kind = "gcp"
    /\ prov[2].closeCalls = 1 /\ prov[3].closeCalls = 1
    /\ prov[2].relCalls = 0 /\ prov[3].relCalls = 0
    /\ prov[1].relCalls = 1
    /\ cleanup.at = {1}

\* the sinks the Logger does not own: standard output and the caller's
\* writer
NotOwned(i) == prov[i].kind \in {"stdout", "writer"}

\* C22: Close never closes a sink the Logger does not own: the close of a
\* console or writer destination returns no error and leaves the sink as it
\* is (no Close of the stream or the writer is ever called, what the sink
\* holds is unchanged), at every Close of the logger's life.
C22_NotOwnedSinkLeftOpen ==
    [][\A i \in DOMAIN prov :
          NotOwned(i) /\ i \in DOMAIN prov' =>
              /\ prov'[i].relCalls = 0
              /\ ~prov'[i].open
              /\ prov'[i].closeCalls # prov[i].closeCalls =>
                    LET ev == call'["t1"].ev IN
                    /\ sink'[i] = sink[i]
                    /\ prov'[i] = [prov[i] EXCEPT !.closeCalls = @ + 1]
                    /\ ev[Len(ev)] = Event("close", i, Nil)]_vars

\* C22 witness: a record was written to standard output and to the caller's
\* writer, the logger was closed, and both sinks hold the record and have
\* not been closed.
C22_Witness ==
    /\ NumDest = 2
    /\ closes.returned >= 1
    /\ \A i \in 1..2 :
          /\ NotOwned(i)
          /\ prov[i].closeCalls >= 1
          /\ prov[i].relCalls = 0
          /\ Len(sink[i]) = 1

\* the numbers of the records sink i holds, in the order it holds them
Ids(i) == [a \in DOMAIN sink[i] |-> sink[i][a].id]

Attempted(t) ==
    LET n == IF pc[t] = "writing" THEN idx[t] ELSE Len(job[t].out) IN
    [a \in 1..n |-> job[t].cores[a]]

\* C24: for one emitted record the destinations are written in registration
\* order, the order of the provider options: when the Write of destination
\* j has been entered, the Write of every destination registered before j
\* (and enabled at the record's level) has been entered before and has
\* returned.
C24_FanOutInRegistrationOrder ==
    /\ logger.ok =>
          \A i \in 1..NumDest :
              /\ logger.cores[i].p = i
              /\ prov[i].kind = Config.providers[i].kind
    /\ \A t \in Threads :
          LET att == Attempted(t) IN
          /\ \A a, b \in DOMAIN att : a < b => att[a] < att[b]
          /\ \A b \in DOMAIN att :
                \A i \in 1..(att[b] - 1) :
                    Enabled(i, job[t].lvl) =>
                        \E a \in 1..(b - 1) :
                            att[a] = i /\ a <= Len(job[t].out)

\* C24 witness: an emit call is inside the Write of the second destination
\* after the Write of the first has returned.
C24_Witness ==
    \E t \in Threads :
        /\ NumDest = 2
        /\ pc[t] = "writing"
        /\ Attempted(t) = <<1, 2>>
        /\ Len(job[t].out) = 1

\* the severity the cloud service shows for each level of the package
SeverityOf(l) ==
    CASE l = DebugLevel -> "DEBUG"
      [] l = InfoLevel -> "INFO"
      [] l = WarnLevel -> "WARNING"
      [] l = ErrorLevel -> "ERROR"
      [] l = FatalLevel -> "EMERGENCY"

\* C25: the cloud sink gives the entry of a record emitted at Debug, Info,
\* Warn, Error, Fatal the severity DEBUG, INFO, WARNING, ERROR, EMERGENCY;
\* no two of the five levels share a severity and none gets the default
\* one.
C25_SeverityMapping ==
    /\ \A a \in DOMAIN cloud :
          \A l \in Levels :
              rec.lvl = MethodLevel(l) => cloud[a].Severity = SeverityOf(l)
    /\ cloud # <<>> =>
          \A l \in Levels :
              /\ levelToSeverity(MethodLevel(l)) # "DEFAULT"
              /\ levelToSeverity(MethodLevel(l)) = cloud[1].Severity
                    => MethodLevel(l) = rec.lvl

\* C25 witness: a Fatal record has been written to the cloud sink with
\* severity EMERGENCY.
C25_Witness ==
    /\ cloud # <<>>
    /\ rec.lvl = ZapFatal
    /\ cloud[1].Severity = "EMERGENCY"

\* the fields the cloud core's Write was handed, their keys, and the keys
\* the sink sets from the caller
Written == Emitted(rec).fields
WrittenKeys == {Written[a].Key : a \in DOMAIN Written}
SourceKeys == {"source_file", "source_line", "source_function"}
HasCaller == rec.caller # <<>>
CallerValue(k) ==
    CASE k = "source_file" -> rec.caller[1].File
      [] k = "source_line" -> rec.caller[1].Line
      [] k = "source_function" -> rec.caller[1].Function

\* C26 as stated: for every record the cloud sink writes exactly one entry
\* whose payload holds all the record's fields plus the key message set to
\* the record's message (overriding a field keyed message), and holds
\* source_file, source_line and source_function iff caller information is
\* present; the entry's timestamp is the record's.
C26_PayloadHoldsAllFields ==
    cloud # <<>> =>
        LET e == cloud[1] IN
        /\ Len(cloud) = 1
        /\ \A a \in DOMAIN Written :
              Written[a].Key # "message" =>
                  /\ Written[a].Key \in DOMAIN e.Payload
                  /\ e.Payload[Written[a].Key] = Written[a].v
        /\ e.Payload["message"] = rec.msg
        /\ \A k \in SourceKeys : k \in DOMAIN e.Payload <=> HasCaller
        /\ e.Timestamp = rec.time

\* the value of the last of the written fields that has key k
LastValue(k) ==
    LET at == {a \in DOMAIN Written : Written[a].Key = k} IN
    Written[CHOOSE a \in at : \A b \in at : b <= a].v

\* C26 amended: for every record the cloud sink writes exactly one entry.
\* Its payload has the keys of the record's fields, the key message and,
\* when caller information is present, source_file, source_line and
\* source_function, and no other key.  message is the record's message and
\* the three source keys are the caller's, each overriding a field of the
\* same key; any other key holds the value of the last field that has it.
\* When caller information is absent a source key is in the payload only
\* if a field has it.  The entry's timestamp is the record's.
C26_PayloadIsFlatMap ==
    cloud # <<>> =>
        LET e == cloud[1]
            set == {"message"} \cup (IF HasCaller THEN SourceKeys ELSE {})
        IN
        /\ Len(cloud) = 1
        /\ DOMAIN e.Payload = WrittenKeys \cup set
        /\ e.Payload["message"] = rec.msg
        /\ HasCaller => \A k \in SourceKeys : e.Payload[k] = CallerValue(k)
        /\ \A k \in WrittenKeys \ set : e.Payload[k] = LastValue(k)
        /\ e.Timestamp = rec.time

\* C26 witness: a record with two fields of the same key and a caller has
\* been written; the payload holds the second field's value, the message
\* and the caller's file.
C26_Witness ==
    /\ cloud # <<>>
    /\ HasCaller
    /\ rec.fields = <<String("k", "a"), IntField("k", "7")>>
    /\ cloud[1].Payload["k"] = "7"
    /\ cloud[1].Payload["message"] = "m"
    /\ cloud[1].Payload["source_file"] = "main.go"

\* the value key has in the context: that of the newest attachment of the
\* key, if it is a non-empty string
Newest(key) ==
    LET at == {a \in DOMAIN ctx.chain : ctx.chain[a].key = key} IN
    IF at = {} THEN ""
    ELSE LET v == ctx.chain[CHOOSE a \in at : \A b \in at : b <= a].val IN
         IF v.type = "string" THEN v.v ELSE ""
KeyNo(key) == CHOOSE a \in DOMAIN KnownKeys : KnownKeys[a] = key

\* C27: FieldsFromContext returns exactly one String field for each of the
\* five known keys that holds a non-empty string in the context, in the
\* order correlation_id, request_id, user_id, trace_id, span_id, with the
\* value attached last; a key that is missing (or holds an empty string or
\* no string) is omitted, a nil context gives no fields, and a With...ID
\* call with an empty id returns the context it was given, one with an id
\* the context with that one value more.
C27_FieldsFromContext ==
    /\ \A n \in DOMAIN ctx.calls :
          LET cl == ctx.calls[n]
              before == IF n = 1 THEN 0 ELSE ctx.calls[n - 1].at
          IN
          cl.fn = "WithID" =>
              IF cl.id = "" THEN cl.at = before
              ELSE /\ cl.at = before + 1
                   /\ ctx.chain[cl.at] =
                         [key |-> cl.key, val |-> Value("string", cl.id)]
    /\ ctxFields # <<>> =>
          LET r == ctxFields[1] IN
          /\ ctx.nil => r = <<>>
          /\ {r[a].Key : a \in DOMAIN r} =
                {KnownKeys[a] : a \in {b \in DOMAIN KnownKeys :
                                          Newest(KnownKeys[b]) # ""}}
          /\ \A a \in DOMAIN r : r[a] = String(r[a].Key, Newest(r[a].Key))
          /\ \A a, b \in DOMAIN r : a < b => KeyNo(r[a].Key) < KeyNo(r[b].Key)

\* C27 witness: a span id, then a correlation id, then another correlation
\* id were attached; the fields are the second correlation id and the span
\* id, in this order.
C27_Witness ==
    /\ ctxFields = <<<<String("correlation_id", "b"), String("span_id", "a")>>>>
    /\ Len(ctx.chain) = 3
    /\ ctx.chain[1].key = "span_id"
    /\ ctx.chain[2].val = Value("string", "a")

\* the WithLevel options among the options, in order, and the threshold
\* they ask for: Info without any, else that of the last one, where a
\* value that is none of the five levels counts as Info
LevelsAsked == SelectSeq(options, LAMBDA o : o.opt = "level")
AskedThreshold ==
    IF LevelsAsked = <<>> THEN InfoLevel
    ELSE LET l == LevelsAsked[Len(LevelsAsked)].level IN
         IF l \in Levels THEN l ELSE InfoLevel

\* C28: the threshold of a Logger is Info when no WithLevel option is given
\* (Debug is dropped, Info and above are delivered); with several WithLevel
\* options the last one in option order decides, and a Level that is none
\* of the five defined values behaves as Info: a record is delivered exactly
\* when its level is at or above that threshold.
C28_ThresholdFromOptions ==
    /\ phase = "returned" => logger.ok
    /\ \A k \in DOMAIN emitted :
          Copies(1, k) = IF emitted[k].lvl >= AskedThreshold THEN 1 ELSE 0

\* C28 witness: WithLevel(DebugLevel) was followed by WithLevel(7), and a
\* Debug record was dropped as under Info.
C28_Witness ==
    /\ options = <<WithWriterProvider(JSONEncoder), WithLevel(DebugLevel),
                   WithLevel(7)>>
    /\ Len(emitted) = 1
    /\ emitted[1].lvl = DebugLevel
    /\ sink[1] = <<>>

\* C29: every Field passed to an emit is written under its own Key, in the
\* same number and order as passed, whatever the type of its value (an
\* error passed through Any(key, err) included): the attributes of the
\* written line are as many as the Fields, and the key of the a-th is the
\* Key of the a-th Field.
C29_FieldsKeepTheirKeys ==
    encoded # <<>> =>
        LET out == encoded[1] IN
        /\ Len(out) = Len(rec.fields)
        /\ \A a \in DOMAIN out : out[a].key = rec.fields[a].Key

\* C30: Close does not disable emission: an emit at an accepted level made
\* after a Close has returned is not dropped and puts exactly one entry
\* into each console or writer destination of the Logger (whose own write
\* does not fail).
C30_EmitAfterClose ==
    \A k \in DOMAIN emitted :
        emitted[k].closed >= 1 /\ Accepted(k) =>
            \A i \in 1..NumDest :
                NotOwned(i) /\ i \notin emitted[k].fail => Copies(i, k) = 1

\* C30 witness: an Info record emitted after Close had returned is in
\* standard output and in the caller's writer.
C30_Witness ==
    /\ NumDest = 2
    /\ \E k \in DOMAIN emitted :
          /\ emitted[k].closed >= 1
          /\ Accepted(k)
          /\ emitted[k].fail = {}
          /\ \A i \in 1..2 : NotOwned(i) /\ Copies(i, k) = 1

====
